---- MODULE Spec2Model ----
(***************************************************************************)
(* State-machine model of CassandraCQLLibrary (src/src/CassandraCQLLibrary *)
(* .py): the library object holds the field _connection and a              *)
(* robot.utils.ConnectionCache (_cache).  Sessions handed out by the       *)
(* driver are numbered 1, 2, ... in the order cluster.connect() creates    *)
(* them.  Every keyword of the library is one action; the outcome of a     *)
(* driver call (returns / raises) is an input of the action.               *)
(***************************************************************************)
EXTENDS Integers, Sequences, FiniteSets, TLC

\* ------------------------------------------------------------------ bounds
MaxSessions == 2       \* sessions the driver opens in one run
MaxShutdowns == 3      \* shutdown() invocations in one run, over all sessions
MaxFutures == 1        \* ResponseFutures the caller keeps in one run
MaxRows == 2           \* rows of a result set

\* --------------------------------------------------------- program values
None == 0              \* Python None (self._connection after __init__)
NoConnection == -1     \* the cache's NoConnection placeholder object

Sessions == 1..MaxSessions

\* Strings are tuples of one-character strings.
AliasInputs == { <<"c", "1">>, <<"c", "2">> }
SwitchStrings == AliasInputs \cup { <<"C", " ", "1">>, <<" ", "2">> }
NoString == << >>
Statements == { "SELECT" }

\* ------------------------------------------------------- string functions
\* str.lower() on one character.
Lower(ch) ==
    CASE ch = "C" -> "c"
      [] OTHER -> ch

IsSpace(ch) == ch = " "

\* robot.utils.normalize(string) with the NormalizedDict defaults
\* (caseless, spaceless): drop all whitespace, then lower-case.
RECURSIVE Normalize(_)
Normalize(s) ==
    IF s = << >> THEN << >>
    ELSE IF IsSpace(Head(s)) THEN Normalize(Tail(s))
         ELSE << Lower(Head(s)) >> \o Normalize(Tail(s))

IsDigit(ch) == ch \in { "0", "1", "2", "3", "4", "5", "6", "7", "8", "9" }

DigitVal(ch) ==
    CASE ch = "0" -> 0 [] ch = "1" -> 1 [] ch = "2" -> 2 [] ch = "3" -> 3
      [] ch = "4" -> 4 [] ch = "5" -> 5 [] ch = "6" -> 6 [] ch = "7" -> 7
      [] ch = "8" -> 8 [] ch = "9" -> 9

RECURSIVE LStrip(_)
LStrip(s) == IF s # << >> /\ IsSpace(Head(s)) THEN LStrip(Tail(s)) ELSE s

RECURSIVE RStrip(_)
RStrip(s) ==
    IF s # << >> /\ IsSpace(s[Len(s)]) THEN RStrip(SubSeq(s, 1, Len(s) - 1)) ELSE s

RECURSIVE DigitsValue(_, _)
DigitsValue(s, acc) ==
    IF s = << >> THEN acc ELSE DigitsValue(Tail(s), 10 * acc + DigitVal(Head(s)))

\* int(string): surrounding whitespace is stripped, the rest must be decimal
\* digits.  ok = FALSE stands for the ValueError.
ParseInt(s) ==
    LET t == RStrip(LStrip(s)) IN
    IF t # << >> /\ \A k \in 1..Len(t) : IsDigit(t[k])
    THEN [ok |-> TRUE, val |-> DigitsValue(t, 0)]
    ELSE [ok |-> FALSE, val |-> 0]

\* ------------------------------------------------------------ result sets
\* A value of a row: a Python str, int or None.
StrVal(s) == [t |-> "str", s |-> s, i |-> 0]
IntVal(i) == [t |-> "int", s |-> << >>, i |-> i]
NoneVal == [t |-> "none", s |-> << >>, i |-> 0]

DigitChar(d) ==
    CASE d = 0 -> "0" [] d = 1 -> "1" [] d = 2 -> "2" [] d = 3 -> "3"
      [] d = 4 -> "4" [] d = 5 -> "5" [] d = 6 -> "6" [] d = 7 -> "7"
      [] d = 8 -> "8" [] d = 9 -> "9"

RECURSIVE NatToStr(_)
NatToStr(n) ==
    IF n < 10 THEN << DigitChar(n) >>
    ELSE NatToStr(n \div 10) \o << DigitChar(n % 10) >>

\* str(value)
Str(v) ==
    CASE v.t = "str" -> v.s
      [] v.t = "int" -> IF v.i < 0 THEN << "-" >> \o NatToStr(0 - v.i) ELSE NatToStr(v.i)
      [] v.t = "none" -> << "N", "o", "n", "e" >>

\* A row maps the names of its columns to values; the rows the driver may
\* return, and the column names asked for.
KeyspaceName == "keyspace_name"
DurableWrites == "durable_writes"
ColumnNames == { KeyspaceName, DurableWrites }

RowTest == (KeyspaceName :> StrVal(<< "t", "e", "s", "t" >>)) @@ (DurableWrites :> NoneVal)
RowOpsCenter == (KeyspaceName :> StrVal(<< "O", "p", "s", "C", "e", "n", "t", "e", "r" >>))
RowNumbers == (KeyspaceName :> IntVal(12)) @@ (DurableWrites :> IntVal(0 - 3))
RowNoKeyspace == (DurableWrites :> NoneVal)

RowInputs == { RowTest, RowOpsCenter, RowNumbers, RowNoKeyspace }
ResultSets == UNION { [1..n -> RowInputs] : n \in 0..MaxRows }

\* getattr(item, column) succeeds.
HasColumn(row, column) == column \in DOMAIN row

\* Variant of ProjectFrom: the value is inserted at the front of the list.
RECURSIVE ProjectFrom_Prepends(_, _, _)
ProjectFrom_Prepends(column, rows, acc) ==
    IF rows = << >> THEN [ok |-> TRUE, list |-> acc]
    ELSE IF ~HasColumn(Head(rows), column) THEN [ok |-> FALSE, list |-> << >>]
    ELSE ProjectFrom_Prepends(column, Tail(rows), << Str(Head(rows)[column]) >> \o acc)

\* Variant of ProjectFrom: a row without the column is skipped.
RECURSIVE ProjectFrom_SkipsMissing(_, _, _)
ProjectFrom_SkipsMissing(column, rows, acc) ==
    IF rows = << >> THEN [ok |-> TRUE, list |-> acc]
    ELSE IF ~HasColumn(Head(rows), column)
         THEN ProjectFrom_SkipsMissing(column, Tail(rows), acc)
    ELSE ProjectFrom_SkipsMissing(column, Tail(rows), Append(acc, Str(Head(rows)[column])))

\* The loop of get_column over the rows left, acc being result_values: the
\* AttributeError of getattr leaves the keyword (ok = FALSE), and the values
\* collected so far are dropped with it.
RECURSIVE ProjectFrom(_, _, _)
ProjectFrom(column, rows, acc) ==
    IF rows = << >> THEN [ok |-> TRUE, list |-> acc]
    ELSE IF ~HasColumn(Head(rows), column) THEN [ok |-> FALSE, list |-> << >>]
    ELSE ProjectFrom(column, Tail(rows), Append(acc, Str(Head(rows)[column])))

\* ------------------------------------------------------------------ state
VARIABLES
    connection,        \* self._connection: None, NoConnection or a session
    cache_connections, \* self._cache._connections
    cache_aliases,     \* self._cache._aliases: normalized alias -> index
    cache_current,     \* self._cache.current: NoConnection or a session
    sessions_opened,   \* number of sessions cluster.connect() has created
    shutdown_calls,    \* session -> number of shutdown() invocations
    futures,           \* the ResponseFutures the caller holds, in issue order
    waiting,           \* the future get_async_result is blocked on, or 0
    last,              \* the keyword call just made: arguments and outcome
    registered,        \* history: successful connects since the last reset
    since_close_all,   \* history: successful connects since start or the last close_all call
    disconnected       \* history: sessions shut down by disconnect

vars == << connection, cache_connections, cache_aliases, cache_current,
           sessions_opened, shutdown_calls, futures, waiting, last,
           registered, since_close_all, disconnected >>

EmptyAliases == [a \in {} |-> 0]

\* last: op the keyword, kind/int/str/stmt its arguments, ok/err/ret its
\* outcome, calls the driver calls it made (in order), before the value of
\* self._connection when it was called.  msg is the driver's message an
\* error carries.  For get_column: column and rows are the column name and
\* the rows the driver returns, list is the list returned.  fault tells that
\* a driver call of the keyword raised.
NoCall == [op |-> "init", ok |-> TRUE, err |-> "", ret |-> None,
           calls |-> << >>, kind |-> "", int |-> 0, str |-> NoString,
           stmt |-> "", before |-> None, msg |-> "",
           column |-> "", rows |-> << >>, fault |-> FALSE, list |-> << >>]

Call(m, h) == [m |-> m, h |-> h, stmt |-> ""]

StmtCall(m, h, stmt) == [m |-> m, h |-> h, stmt |-> stmt]

\* ---------------------------------------------------- ConnectionCache ops
\* Variant of CurrentIndex: the enumerate position is returned without the +1.
CurrentIndex_ZeroBased(conns, current) ==
    IF current = NoConnection THEN None
    ELSE LET hits == { i \in 1..Len(conns) : conns[i] = current } IN
         IF hits = {} THEN None
         ELSE (CHOOSE i \in hits : \A j \in hits : i <= j) - 1

\* ConnectionCache.current_index: None when there is no current connection,
\* else the 1-based position of the current connection.
CurrentIndex(conns, current) ==
    IF current = NoConnection THEN None
    ELSE LET hits == { i \in 1..Len(conns) : conns[i] = current } IN
         IF hits = {} THEN None
         ELSE CHOOSE i \in hits : \A j \in hits : i <= j

\* Variant of Register: the index is taken before the connection is appended.
Register_IndexBeforeAppend(conns, aliases, h, hasAlias, alias) ==
    LET newConns == Append(conns, h)
        index == Len(conns)
        key == Normalize(alias)
    IN [ connections |-> newConns,
         aliases |-> IF hasAlias
                     THEN [k \in DOMAIN aliases \cup {key} |->
                              IF k = key THEN index ELSE aliases[k]]
                     ELSE aliases,
         current |-> h,
         index |-> index ]

\* ConnectionCache.register(connection, alias)
Register(conns, aliases, h, hasAlias, alias) ==
    LET newConns == Append(conns, h)
        index == Len(newConns)
        key == Normalize(alias)
    IN [ connections |-> newConns,
         aliases |-> IF hasAlias
                     THEN [k \in DOMAIN aliases \cup {key} |->
                              IF k = key THEN index ELSE aliases[k]]
                     ELSE aliases,
         current |-> h,
         index |-> index ]

\* ConnectionCache._resolve_alias: a string that is a key of _aliases.
ResolveAlias(aliases, kind, str) ==
    IF kind = "str" /\ Normalize(str) \in DOMAIN aliases
    THEN [ok |-> TRUE, index |-> aliases[Normalize(str)]]
    ELSE [ok |-> FALSE, index |-> 0]

\* ConnectionCache._resolve_index: int(index) within 1..len(_connections).
ResolveIndex(conns, kind, int, str) ==
    LET parsed == IF kind = "int" THEN [ok |-> TRUE, val |-> int] ELSE ParseInt(str) IN
    IF parsed.ok /\ 0 < parsed.val /\ parsed.val <= Len(conns)
    THEN [ok |-> TRUE, index |-> parsed.val]
    ELSE [ok |-> FALSE, index |-> 0]

\* ConnectionCache.resolve_alias_or_index: the alias resolver is tried first,
\* then the index resolver; ok = FALSE stands for the final ValueError.
ResolveAliasOrIndex(conns, aliases, kind, int, str) ==
    LET byAlias == ResolveAlias(aliases, kind, str) IN
    IF byAlias.ok THEN byAlias ELSE ResolveIndex(conns, kind, int, str)

\* Variant of CacheSwitch: an unresolved argument is swallowed and the
\* current connection is returned.
CacheSwitch_SwallowsError(conns, aliases, current, kind, int, str) ==
    LET r == ResolveAliasOrIndex(conns, aliases, kind, int, str) IN
    IF r.ok
    THEN [ok |-> TRUE, current |-> conns[r.index]]
    ELSE [ok |-> TRUE, current |-> current]

\* ConnectionCache.switch(alias_or_index): get_connection raises RuntimeError
\* before current is assigned when nothing resolves.
CacheSwitch(conns, aliases, current, kind, int, str) ==
    LET r == ResolveAliasOrIndex(conns, aliases, kind, int, str) IN
    IF r.ok
    THEN [ok |-> TRUE, current |-> conns[r.index]]
    ELSE [ok |-> FALSE, current |-> current]

\* ConnectionCache.close_all(closer_method='shutdown'): the closer is called
\* on the connections in order; an exception of the closer leaves the loop
\* and the method, so that empty_cache() is not reached.  failAt = 0: no
\* closer raises; failAt = k: the k-th closer call raises.
CacheCloseAll(conns, aliases, current, failAt) ==
    LET attempted == IF failAt = 0 THEN Len(conns) ELSE failAt IN
    IF failAt = 0
    THEN [ ok |-> TRUE, closed |-> SubSeq(conns, 1, attempted),
           connections |-> << >>, aliases |-> EmptyAliases,
           current |-> NoConnection ]
    ELSE [ ok |-> FALSE, closed |-> SubSeq(conns, 1, attempted),
           connections |-> conns, aliases |-> aliases, current |-> current ]

\* Session.shutdown() invocations made so far, over all sessions.
RECURSIVE SumUpTo(_, _)
SumUpTo(f, n) == IF n = 0 THEN 0 ELSE f[n] + SumUpTo(f, n - 1)

ShutdownsMade == SumUpTo(shutdown_calls, sessions_opened)

\* Variant of Truthy: the test "is not None" in place of truthiness.
Truthy_IsNotNone(c) == c # None

\* bool(self._connection): None and the NoConnection placeholder are falsy.
Truthy(c) == c # None /\ c # NoConnection

\* ------------------------------------------------------------------- Init
Init ==
    /\ connection = None
    /\ cache_connections = << >>
    /\ cache_aliases = EmptyAliases
    /\ cache_current = NoConnection
    /\ sessions_opened = 0
    /\ shutdown_calls = [h \in {} |-> 0]
    /\ futures = << >>
    /\ waiting = 0
    /\ last = NoCall
    /\ registered = << >>
    /\ since_close_all = 0
    /\ disconnected = {}

\* ---------------------------------------------------------------- actions
\* Variant of ConnectToCassandra: the session is stored in self._connection
\* as soon as cluster.connect() returns, before set_keyspace is called.
ConnectToCassandra_AssignsEarly(hasAlias, alias, hasKeyspace, outcome) ==
    LET h == sessions_opened + 1
        reg == Register(cache_connections, cache_aliases, h, hasAlias, alias)
        opened == << Call("connect", h) >>
        withKs == IF hasKeyspace THEN opened \o << Call("set_keyspace", h) >> ELSE opened
        base == [NoCall EXCEPT !.op = "connect", !.before = connection,
                               !.kind = IF hasAlias THEN "str" ELSE "",
                               !.str = alias]
    IN
    /\ waiting = 0
    /\ sessions_opened < MaxSessions
    /\ outcome = "set_keyspace_fails" => hasKeyspace
    /\ ~hasAlias => alias = NoString
    /\ CASE outcome = "connect_fails" ->
              /\ last' = [base EXCEPT !.ok = FALSE, !.err = "ConnectError",
                                      !.calls = << Call("connect", None) >>]
              /\ UNCHANGED << connection, cache_connections, cache_aliases,
                              cache_current, sessions_opened, shutdown_calls,
                              registered, since_close_all >>
         [] outcome = "set_keyspace_fails" ->
              /\ sessions_opened' = h
              /\ shutdown_calls' = [s \in 1..h |-> IF s = h THEN 0 ELSE shutdown_calls[s]]
              /\ connection' = h
              /\ last' = [base EXCEPT !.ok = FALSE, !.err = "ConnectError",
                                      !.calls = withKs]
              /\ UNCHANGED << cache_connections, cache_aliases,
                              cache_current, registered, since_close_all >>
         [] outcome = "ok" ->
              /\ sessions_opened' = h
              /\ shutdown_calls' = [s \in 1..h |-> IF s = h THEN 0 ELSE shutdown_calls[s]]
              /\ connection' = h
              /\ cache_connections' = reg.connections
              /\ cache_aliases' = reg.aliases
              /\ cache_current' = reg.current
              /\ last' = [base EXCEPT !.ret = reg.index, !.calls = withKs]
              /\ since_close_all' = since_close_all + 1
              /\ registered' = Append(registered,
                                      [session |-> h, hasAlias |-> hasAlias,
                                       alias |-> alias, index |-> reg.index])
    /\ UNCHANGED << disconnected, futures, waiting >>

\* connect_to_cassandra(host, port, alias, keyspace, ...).  outcome:
\*   "connect_fails":      Cluster(...) / cluster.connect() raises;
\*   "set_keyspace_fails": the session is opened, session.set_keyspace raises;
\*   "ok":                 no driver call raises.
ConnectToCassandra(hasAlias, alias, hasKeyspace, outcome) ==
    LET h == sessions_opened + 1
        reg == Register(cache_connections, cache_aliases, h, hasAlias, alias)
        opened == << Call("connect", h) >>
        withKs == IF hasKeyspace THEN opened \o << Call("set_keyspace", h) >> ELSE opened
        base == [NoCall EXCEPT !.op = "connect", !.before = connection,
                               !.kind = IF hasAlias THEN "str" ELSE "",
                               !.str = alias, !.fault = (outcome # "ok")]
    IN
    /\ waiting = 0
    /\ sessions_opened < MaxSessions
    /\ outcome = "set_keyspace_fails" => hasKeyspace
    /\ ~hasAlias => alias = NoString
    /\ CASE outcome = "connect_fails" ->
              /\ last' = [base EXCEPT !.ok = FALSE, !.err = "ConnectError",
                                      !.calls = << Call("connect", None) >>]
              /\ UNCHANGED << connection, cache_connections, cache_aliases,
                              cache_current, sessions_opened, shutdown_calls,
                              registered, since_close_all >>
         [] outcome = "set_keyspace_fails" ->
              /\ sessions_opened' = h
              /\ shutdown_calls' = [s \in 1..h |-> IF s = h THEN 0 ELSE shutdown_calls[s]]
              /\ last' = [base EXCEPT !.ok = FALSE, !.err = "ConnectError",
                                      !.calls = withKs]
              /\ UNCHANGED << connection, cache_connections, cache_aliases,
                              cache_current, registered, since_close_all >>
         [] outcome = "ok" ->
              /\ sessions_opened' = h
              /\ shutdown_calls' = [s \in 1..h |-> IF s = h THEN 0 ELSE shutdown_calls[s]]
              /\ connection' = h
              /\ cache_connections' = reg.connections
              /\ cache_aliases' = reg.aliases
              /\ cache_current' = reg.current
              /\ last' = [base EXCEPT !.ret = reg.index, !.calls = withKs]
              /\ since_close_all' = since_close_all + 1
              /\ registered' = Append(registered,
                                      [session |-> h, hasAlias |-> hasAlias,
                                       alias |-> alias, index |-> reg.index])
    /\ UNCHANGED << disconnected, futures, waiting >>

\* Variant of DisconnectFromCassandra: without a connection the keyword
\* returns silently ("if not self._connection: return").
DisconnectFromCassandra_SilentWithoutConnection(raises) ==
    LET base == [NoCall EXCEPT !.op = "disconnect", !.before = connection] IN
    /\ waiting = 0
    /\ IF ~Truthy(connection)
       THEN /\ ~raises
            /\ last' = base
            /\ UNCHANGED << shutdown_calls, disconnected >>
       ELSE /\ ShutdownsMade < MaxShutdowns
            /\ shutdown_calls' = [shutdown_calls EXCEPT ![connection] = @ + 1]
            /\ last' = [base EXCEPT !.ok = ~raises,
                                    !.err = IF raises THEN "DriverError" ELSE "",
                                    !.calls = << Call("shutdown", connection) >>]
            /\ disconnected' = IF raises THEN disconnected
                               ELSE disconnected \cup {connection}
    /\ UNCHANGED << connection, cache_connections, cache_aliases, cache_current,
                    sessions_opened, registered, since_close_all, futures, waiting >>

\* disconnect_from_cassandra().  raises: session.shutdown() raises.
DisconnectFromCassandra(raises) ==
    LET base == [NoCall EXCEPT !.op = "disconnect", !.before = connection,
                               !.fault = raises] IN
    /\ waiting = 0
    /\ IF connection = None
       THEN /\ ~raises
            /\ last' = [base EXCEPT !.ok = FALSE, !.err = "NoConnection"]
            /\ UNCHANGED << shutdown_calls, disconnected >>
       ELSE IF connection = NoConnection
       THEN \* attribute access on the placeholder raises RuntimeError
            /\ ~raises
            /\ last' = [base EXCEPT !.ok = FALSE, !.err = "NoOpenConnection"]
            /\ UNCHANGED << shutdown_calls, disconnected >>
       ELSE /\ ShutdownsMade < MaxShutdowns
            /\ shutdown_calls' = [shutdown_calls EXCEPT ![connection] = @ + 1]
            /\ last' = [base EXCEPT !.ok = ~raises,
                                    !.err = IF raises THEN "DriverError" ELSE "",
                                    !.calls = << Call("shutdown", connection) >>]
            /\ disconnected' = IF raises THEN disconnected
                               ELSE disconnected \cup {connection}
    /\ UNCHANGED << connection, cache_connections, cache_aliases, cache_current,
                    sessions_opened, registered, since_close_all, futures, waiting >>

\* close_all_cassandra_connections().  failAt as in CacheCloseAll.
CloseAllCassandraConnections(failAt) ==
    LET r == CacheCloseAll(cache_connections, cache_aliases, cache_current, failAt)
        closedSet == { r.closed[k] : k \in 1..Len(r.closed) }
        base == [NoCall EXCEPT !.op = "close_all", !.before = connection,
                               !.calls = [k \in 1..Len(r.closed) |->
                                             Call("shutdown", r.closed[k])]]
    IN
    /\ waiting = 0
    /\ failAt \in 0..Len(cache_connections)
    /\ ShutdownsMade + Len(r.closed) <= MaxShutdowns
    /\ shutdown_calls' = [h \in DOMAIN shutdown_calls |->
                             IF h \in closedSet THEN shutdown_calls[h] + 1
                             ELSE shutdown_calls[h]]
    /\ cache_connections' = r.connections
    /\ cache_aliases' = r.aliases
    /\ cache_current' = r.current
    /\ IF r.ok
       THEN /\ connection' = r.current
            /\ registered' = << >>
            /\ last' = base
       ELSE /\ UNCHANGED << connection, registered >>
            /\ last' = [base EXCEPT !.ok = FALSE, !.err = "DriverError"]
    /\ since_close_all' = 0
    /\ UNCHANGED << sessions_opened, disconnected, futures, waiting >>

\* Variant of SwitchCassandraConnection: the connection switched away from
\* is shut down.
SwitchCassandraConnection_ClosesPrevious(kind, int, str) ==
    LET old_index == CurrentIndex(cache_connections, cache_current)
        r == CacheSwitch(cache_connections, cache_aliases, cache_current, kind, int, str)
        base == [NoCall EXCEPT !.op = "switch", !.before = connection,
                               !.kind = kind, !.int = int, !.str = str]
    IN
    /\ waiting = 0
    /\ \/ kind = "int" /\ str = NoString
       \/ kind = "str" /\ int = 0
    /\ cache_current' = r.current
    /\ IF r.ok
       THEN /\ connection' = r.current
            /\ shutdown_calls' = [shutdown_calls EXCEPT ![connection] = @ + 1]
            /\ last' = [base EXCEPT !.ret = old_index,
                                    !.calls = << Call("shutdown", connection) >>]
       ELSE /\ UNCHANGED << connection, shutdown_calls >>
            /\ last' = [base EXCEPT !.ok = FALSE, !.err = "NonExisting"]
    /\ UNCHANGED << cache_connections, cache_aliases, sessions_opened,
                    registered, since_close_all, disconnected, futures, waiting >>

\* Variant of SwitchCassandraConnection: the result of _cache.switch is not
\* stored in self._connection.
SwitchCassandraConnection_KeepsField(kind, int, str) ==
    LET old_index == CurrentIndex(cache_connections, cache_current)
        r == CacheSwitch(cache_connections, cache_aliases, cache_current, kind, int, str)
        base == [NoCall EXCEPT !.op = "switch", !.before = connection,
                               !.kind = kind, !.int = int, !.str = str]
    IN
    /\ waiting = 0
    /\ \/ kind = "int" /\ str = NoString
       \/ kind = "str" /\ int = 0
    /\ cache_current' = r.current
    /\ IF r.ok
       THEN last' = [base EXCEPT !.ret = old_index]
       ELSE last' = [base EXCEPT !.ok = FALSE, !.err = "NonExisting"]
    /\ UNCHANGED << connection, cache_connections, cache_aliases, sessions_opened,
                    shutdown_calls, registered, since_close_all, disconnected, futures, waiting >>

\* switch_cassandra_connection(index_or_alias).  kind = "int": the argument
\* is the integer int; kind = "str": it is the string str.
SwitchCassandraConnection(kind, int, str) ==
    LET old_index == CurrentIndex(cache_connections, cache_current)
        r == CacheSwitch(cache_connections, cache_aliases, cache_current, kind, int, str)
        base == [NoCall EXCEPT !.op = "switch", !.before = connection,
                               !.kind = kind, !.int = int, !.str = str]
    IN
    /\ waiting = 0
    /\ \/ kind = "int" /\ str = NoString
       \/ kind = "str" /\ int = 0
    /\ cache_current' = r.current
    /\ IF r.ok
       THEN /\ connection' = r.current
            /\ last' = [base EXCEPT !.ret = old_index]
       ELSE /\ UNCHANGED connection
            /\ last' = [base EXCEPT !.ok = FALSE, !.err = "NonExisting"]
    /\ UNCHANGED << cache_connections, cache_aliases, sessions_opened,
                    shutdown_calls, registered, since_close_all, disconnected, futures, waiting >>

\* Variant of ExecuteCql: a failed session.execute is tried a second time
\* before the failure is reported.
ExecuteCql_Retries(stmt, raises) ==
    LET base == [NoCall EXCEPT !.op = "execute", !.before = connection,
                               !.stmt = stmt, !.fault = raises] IN
    /\ waiting = 0
    /\ IF ~Truthy(connection)
       THEN /\ ~raises
            /\ last' = [base EXCEPT !.ok = FALSE, !.err = "NoConnection"]
       ELSE IF raises
       THEN last' = [base EXCEPT !.ok = FALSE, !.err = "DriverError",
                                 !.calls = << StmtCall("execute", connection, stmt),
                                              StmtCall("execute", connection, stmt) >>]
       ELSE last' = [base EXCEPT !.calls = << StmtCall("execute", connection, stmt) >>]
    /\ UNCHANGED << connection, cache_connections, cache_aliases, cache_current,
                    sessions_opened, shutdown_calls, registered, since_close_all, disconnected,
                    futures, waiting >>

\* execute_cql(statement).  raises: session.execute raises.
ExecuteCql(stmt, raises) ==
    LET base == [NoCall EXCEPT !.op = "execute", !.before = connection,
                               !.stmt = stmt, !.fault = raises] IN
    /\ waiting = 0
    /\ IF ~Truthy(connection)
       THEN /\ ~raises
            /\ last' = [base EXCEPT !.ok = FALSE, !.err = "NoConnection"]
       ELSE last' = [base EXCEPT !.ok = ~raises,
                                 !.err = IF raises THEN "DriverError" ELSE "",
                                 !.calls = << StmtCall("execute", connection, stmt) >>]
    /\ UNCHANGED << connection, cache_connections, cache_aliases, cache_current,
                    sessions_opened, shutdown_calls, registered, since_close_all, disconnected,
                    futures, waiting >>

\* A ResponseFuture: the session that issued it, its statement, and what the
\* driver has signalled for it ("pending": nothing yet).
Future(h, stmt) == [session |-> h, stmt |-> stmt, state |-> "pending"]

\* execute_async_cql(statement).  raises: session.execute_async raises.
\* keep: the caller stores the returned ResponseFuture (for a later
\* get_async_result); a future the caller drops is not followed further.
ExecuteAsyncCql(stmt, raises, keep) ==
    LET base == [NoCall EXCEPT !.op = "execute_async", !.before = connection,
                               !.stmt = stmt, !.fault = raises] IN
    /\ waiting = 0
    /\ IF ~Truthy(connection)
       THEN /\ ~raises /\ ~keep
            /\ last' = [base EXCEPT !.ok = FALSE, !.err = "NoConnection"]
            /\ UNCHANGED futures
       ELSE IF raises
       THEN /\ ~keep
            /\ last' = [base EXCEPT !.ok = FALSE, !.err = "DriverError",
                                    !.calls = << StmtCall("execute_async", connection, stmt) >>]
            /\ UNCHANGED futures
       ELSE /\ keep => Len(futures) < MaxFutures
            /\ futures' = IF keep THEN Append(futures, Future(connection, stmt))
                          ELSE futures
            /\ last' = [base EXCEPT !.ret = connection,
                                    !.calls = << StmtCall("execute_async", connection, stmt) >>]
    /\ UNCHANGED << connection, cache_connections, cache_aliases, cache_current,
                    sessions_opened, shutdown_calls, registered, since_close_all, disconnected,
                    waiting >>

\* The driver signals completion ("done") or failure ("failed") of a pending
\* operation; this happens on the driver's threads, at any time.
DriverSignals(f, outcome) ==
    /\ f \in 1..Len(futures)
    /\ futures[f].state = "pending"
    /\ outcome \in {"done", "failed"}
    /\ futures' = [futures EXCEPT ![f].state = outcome]
    /\ UNCHANGED << connection, cache_connections, cache_aliases, cache_current,
                    sessions_opened, shutdown_calls, registered, since_close_all, disconnected,
                    waiting, last >>

\* get_async_result(future), entry: the keyword calls future.result(), which
\* blocks the calling thread until the driver has signalled.
GetAsyncResultCall(f) ==
    /\ waiting = 0
    /\ f \in 1..Len(futures)
    /\ waiting' = f
    /\ last' = [NoCall EXCEPT !.op = "get_async_result_call", !.before = connection,
                              !.int = f]
    /\ UNCHANGED << connection, cache_connections, cache_aliases, cache_current,
                    sessions_opened, shutdown_calls, registered, since_close_all, disconnected,
                    futures >>

\* Variant of FutureResult: the statement's outcome is taken from the session
\* that is current when the future is resolved.
FutureResult_OnCurrent(fut) ==
    IF fut.state = "done"
    THEN [ok |-> TRUE, ret |-> connection, err |-> "", msg |-> ""]
    ELSE [ok |-> FALSE, ret |-> None, err |-> "OperationFailed", msg |-> "driver error"]

\* What future.result() yields once the driver has signalled: the result set
\* of the statement on the issuing session, or the driver's exception.
FutureResult(fut) ==
    IF fut.state = "done"
    THEN [ok |-> TRUE, ret |-> fut.session, err |-> "", msg |-> ""]
    ELSE [ok |-> FALSE, ret |-> None, err |-> "OperationFailed", msg |-> "driver error"]

\* Variant of GetAsyncResultReturn: the keyword does not wait for the
\* driver's signal (the future is polled once).
GetAsyncResultReturn_NoWait ==
    LET f == waiting
        r == FutureResult(futures[f])
    IN
    /\ waiting # 0
    /\ waiting' = 0
    /\ last' = [NoCall EXCEPT !.op = "get_async_result", !.before = connection,
                              !.int = f, !.stmt = futures[f].stmt,
                              !.ok = r.ok, !.ret = r.ret, !.err = r.err,
                              !.msg = r.msg, !.fault = ~r.ok,
                              !.calls = << Call("result", futures[f].session) >>]
    /\ UNCHANGED << connection, cache_connections, cache_aliases, cache_current,
                    sessions_opened, shutdown_calls, registered, since_close_all, disconnected,
                    futures >>

\* get_async_result(future), exit: future.result() returns the result set or
\* raises; the exception is re-raised as 'Operation failed: <message>'.
GetAsyncResultReturn ==
    LET f == waiting
        r == FutureResult(futures[f])
    IN
    /\ waiting # 0
    /\ futures[f].state # "pending"
    /\ waiting' = 0
    /\ last' = [NoCall EXCEPT !.op = "get_async_result", !.before = connection,
                              !.int = f, !.stmt = futures[f].stmt,
                              !.ok = r.ok, !.ret = r.ret, !.err = r.err,
                              !.msg = r.msg, !.fault = ~r.ok,
                              !.calls = << Call("result", futures[f].session) >>]
    /\ UNCHANGED << connection, cache_connections, cache_aliases, cache_current,
                    sessions_opened, shutdown_calls, registered, since_close_all, disconnected,
                    futures >>

\* get_column(column, statement).  raises: session.execute raises; rows: the
\* result set session.execute returns.
GetColumn(column, stmt, raises, rows) ==
    LET base == [NoCall EXCEPT !.op = "get_column", !.before = connection,
                               !.stmt = stmt, !.column = column,
                               !.rows = rows, !.fault = raises]
        executed == << StmtCall("execute", connection, stmt) >>
        p == ProjectFrom(column, rows, << >>)
    IN
    /\ waiting = 0
    /\ (~Truthy(connection) \/ raises) => rows = << >>
    /\ IF ~Truthy(connection)
       THEN /\ ~raises
            /\ last' = [base EXCEPT !.ok = FALSE, !.err = "NoConnection"]
       ELSE IF raises
       THEN last' = [base EXCEPT !.ok = FALSE, !.err = "DriverError",
                                 !.calls = executed]
       ELSE IF ~p.ok
       THEN last' = [base EXCEPT !.ok = FALSE, !.err = "AttributeError",
                                 !.calls = executed, !.list = p.list]
       ELSE last' = [base EXCEPT !.calls = executed, !.list = p.list]
    /\ UNCHANGED << connection, cache_connections, cache_aliases, cache_current,
                    sessions_opened, shutdown_calls, registered, since_close_all, disconnected,
                    futures, waiting >>

SwitchInts == 0..MaxSessions

\* The keywords are called one at a time (a single thread of control): each
\* has the guard waiting = 0, none starts while get_async_result is blocked.
Next ==
    \/ \E alias \in AliasInputs, hasKeyspace \in BOOLEAN,
          outcome \in {"ok", "connect_fails", "set_keyspace_fails"} :
          ConnectToCassandra(TRUE, alias, hasKeyspace, outcome)
    \/ \E hasKeyspace \in BOOLEAN,
          outcome \in {"ok", "connect_fails", "set_keyspace_fails"} :
          ConnectToCassandra(FALSE, NoString, hasKeyspace, outcome)
    \/ \E raises \in BOOLEAN : DisconnectFromCassandra(raises)
    \/ \E failAt \in 0..MaxSessions : CloseAllCassandraConnections(failAt)
    \/ \E i \in SwitchInts : SwitchCassandraConnection("int", i, NoString)
    \/ \E s \in SwitchStrings : SwitchCassandraConnection("str", 0, s)
    \/ \E stmt \in Statements, raises \in BOOLEAN : ExecuteCql(stmt, raises)
    \/ \E stmt \in Statements, raises \in BOOLEAN : ExecuteAsyncCql(stmt, raises, FALSE)

Spec == Init /\ [][Next]_vars

\* get_column on the result sets of ResultSets, in the states connects and
\* close_all lead to.
ColumnNext ==
    \/ ConnectToCassandra(FALSE, NoString, FALSE, "ok")
    \/ CloseAllCassandraConnections(0)
    \/ \E column \in ColumnNames, stmt \in Statements, raises \in BOOLEAN,
          rows \in ResultSets : GetColumn(column, stmt, raises, rows)

ColumnSpec == Init /\ [][ColumnNext]_vars

\* The keywords around asynchronous statements, with the driver's signals:
\* connects without alias, switches by index, disconnect, execute,
\* execute_async with the future kept, and get_async_result.
AsyncNext ==
    \/ \E hasKeyspace \in BOOLEAN,
          outcome \in {"ok", "connect_fails", "set_keyspace_fails"} :
          ConnectToCassandra(FALSE, NoString, hasKeyspace, outcome)
    \/ \E raises \in BOOLEAN : DisconnectFromCassandra(raises)
    \/ \E i \in SwitchInts : SwitchCassandraConnection("int", i, NoString)
    \/ \E stmt \in Statements, raises \in BOOLEAN : ExecuteCql(stmt, raises)
    \/ \E stmt \in Statements, raises \in BOOLEAN :
          ExecuteAsyncCql(stmt, raises, ~raises /\ Truthy(connection))
    \/ \E f \in 1..MaxFutures : GetAsyncResultCall(f)
    \/ \E f \in 1..MaxFutures, outcome \in {"done", "failed"} : DriverSignals(f, outcome)
    \/ GetAsyncResultReturn

\* future.result() returns once the driver has signalled: the return step is
\* not postponed forever.
AsyncSpec == Init /\ [][AsyncNext]_vars /\ WF_vars(GetAsyncResultReturn)

TypeOK ==
    /\ connection \in {None, NoConnection} \cup Sessions
    /\ cache_current \in {NoConnection} \cup Sessions
    /\ sessions_opened \in 0..MaxSessions
    /\ DOMAIN shutdown_calls = 1..sessions_opened
    /\ Len(futures) <= MaxFutures
    /\ waiting \in 0..Len(futures)

\* ----------------------------------------------------------------- claims
ExecOps == { "execute", "execute_async" }

\* The sessions the history of connects since the last reset holds.
RegisteredSessions == { registered[k].session : k \in 1..Len(registered) }

\* Two alias strings name the same alias (aliases ignore case and spaces).
SameAlias(a, b) == Normalize(a) = Normalize(b)

\* The entries of the history whose alias is the string s.
EntriesWithAlias(s) ==
    { k \in 1..Len(registered) : registered[k].hasAlias /\ SameAlias(registered[k].alias, s) }

\* The entries of the history an argument of switch designates.
Designated(kind, int, str) ==
    IF kind = "int" THEN { k \in 1..Len(registered) : k = int }
    ELSE IF EntriesWithAlias(str) # {} THEN EntriesWithAlias(str)
    ELSE { k \in 1..Len(registered) : ParseInt(str).ok /\ k = ParseInt(str).val }

\* C1: the k-th successful connect since library start, or since the most
\* recent close_all, returned index k: the indexes handed out are 1, 2, 3,
\* ... in registration order, hence strictly increasing and never reused
\* before a reset, and the first connect after a close_all returns 1.
C1_IndexIsRegistrationCount ==
    (last.op = "connect" /\ last.ok) => last.ret = since_close_all

\* C2: a successful switch returns the index under which the connection
\* that was current immediately before the call was registered, and the
\* connection that is current afterwards is the session of an entry its
\* argument designates (by index, by alias, or by a numeral of the index).
C2_SwitchReturnsPreviousIndex ==
    (last.op = "switch" /\ last.ok) =>
        /\ last.ret \in 1..Len(registered)
        /\ registered[last.ret].session = last.before
        /\ \E k \in Designated(last.kind, last.int, last.str) :
              /\ connection = registered[k].session
              /\ cache_current = registered[k].session

\* The scenario: A as "c1" -> 1, B as "c2" -> 2, switch("c1") returned 2 and
\* A is current.
C2_Witness ==
    /\ Len(registered) = 2
    /\ registered[1].alias = <<"c", "1">> /\ registered[2].alias = <<"c", "2">>
    /\ last.op = "switch" /\ last.ok /\ last.kind = "str" /\ last.str = <<"c", "1">>
    /\ last.ret = 2
    /\ connection = registered[1].session

\* C3: the library's _connection field and the cache's current entry never
\* designate different sessions and are "none" together, and execute and
\* execute_async hand the statement to exactly that session, once.
C3_ExecutesOnCacheCurrent ==
    /\ Truthy(connection) => cache_current = connection
    /\ ~Truthy(connection) => cache_current = NoConnection
    /\ (last.op \in ExecOps /\ cache_current # NoConnection) =>
           last.calls = << StmtCall(last.op, cache_current, last.stmt) >>
    /\ (last.op \in ExecOps /\ cache_current = NoConnection) => last.calls = << >>

\* A statement was executed on session 1 after a second connect and a switch
\* back to the first entry.
C3_Witness ==
    /\ last.op = "execute" /\ last.ok
    /\ Len(cache_connections) = 2
    /\ last.calls = << StmtCall("execute", 1, last.stmt) >>
    /\ cache_current = 1

\* C4: whenever the cache holds no entry, execute and execute_async fail
\* with the no-connection error and make no driver call.
C4_ExecuteOnEmptyCacheFails ==
    (last.op \in ExecOps /\ cache_connections = << >>) =>
        /\ ~last.ok
        /\ last.err = "NoConnection"
        /\ last.calls = << >>

\* execute_async failed on the cache emptied by a close_all.
C4_Witness ==
    /\ last.op = "execute_async" /\ ~last.ok
    /\ cache_connections = << >>
    /\ connection = NoConnection
    /\ sessions_opened >= 1

\* C5: a switch whose argument designates no entry fails with the
\* non-existing-index-or-alias error, and a failed switch leaves the current
\* connection, the entries and the aliases (hence the next index) unchanged.
C5_UnknownSwitchFails ==
    /\ []((last.op = "switch" /\ Designated(last.kind, last.int, last.str) = {}) =>
             (~last.ok /\ last.err = "NonExisting"))
    /\ [][(last'.op = "switch" /\ ~last'.ok) =>
             UNCHANGED << connection, cache_current, cache_connections,
                          cache_aliases, registered >>]_vars

\* A switch by an unknown alias failed while two entries were registered.
C5_Witness ==
    /\ last.op = "switch" /\ ~last.ok /\ last.kind = "str"
    /\ Len(cache_connections) = 2
    /\ Truthy(connection)

\* C6: for an entry registered with index i and alias a, switch(a) and
\* switch(i) make the session registered by that connect current.
C6_AliasAndIndexSelectSameEntry ==
    (last.op = "switch" /\ last.ok) =>
        /\ last.kind = "int" => connection = registered[last.int].session
        /\ last.kind = "str" =>
              \A k \in 1..Len(registered) :
                  (registered[k].hasAlias /\ registered[k].alias = last.str) =>
                      connection = registered[k].session

\* C7: no two live entries carry the same alias.
C7_AliasesUnique ==
    \A j, k \in 1..Len(registered) :
        (j # k /\ registered[j].hasAlias /\ registered[k].hasAlias) =>
            registered[j].alias # registered[k].alias

\* C8: after a close_all in any state, shutdown has been invoked on every
\* session registered since the last reset, the cache holds no entry and no
\* alias, nothing is current, and the next index is 1.
C8_CloseAllResets ==
    /\ [](last.op = "close_all" =>
             /\ cache_connections = << >>
             /\ cache_aliases = EmptyAliases
             /\ cache_current = NoConnection
             /\ ~Truthy(connection)
             /\ Register(cache_connections, cache_aliases, 1, FALSE, NoString).index = 1)
    /\ [][last'.op = "close_all" =>
             \A h \in RegisteredSessions :
                 /\ shutdown_calls'[h] = shutdown_calls[h] + 1
                 /\ \E c \in 1..Len(last'.calls) :
                       last'.calls[c] = Call("shutdown", h)]_vars

\* C9: close_all reports no failure and empties the cache, also when the
\* shutdown of an entry raises.
C9_CloseAllBestEffort ==
    last.op = "close_all" =>
        /\ last.ok
        /\ cache_connections = << >>
        /\ cache_current = NoConnection

\* C10: a session shut down by disconnect is never made current by a later
\* switch and never receives a later statement.
C10_ClosedIsTerminal ==
    /\ (last.op = "switch" /\ last.ok) => connection \notin disconnected
    /\ (last.op \in ExecOps /\ last.calls # << >>) => last.calls[1].h \notin disconnected

\* C11: without a current connection (in the initial state and in the state
\* a close_all leaves) disconnect fails with an error and invokes no
\* shutdown; with a current connection it invokes shutdown on exactly that
\* session, once, and on no other.
C11_DisconnectShutsDownCurrentOnly ==
    /\ [](last.op = "disconnect" =>
             IF cache_current = NoConnection
             THEN ~last.ok /\ last.err \in {"NoConnection", "NoOpenConnection"}
                           /\ last.calls = << >>
             ELSE last.calls = << Call("shutdown", cache_current) >>)
    /\ [][last'.op = "disconnect" =>
             \A h \in DOMAIN shutdown_calls :
                 shutdown_calls'[h] =
                     shutdown_calls[h] + (IF h = cache_current THEN 1 ELSE 0)]_vars

\* disconnect failed in the state left by a close_all.
C11_Witness ==
    /\ last.op = "disconnect" /\ ~last.ok /\ last.calls = << >>
    /\ connection = NoConnection
    /\ sessions_opened >= 1
    /\ cache_connections = << >>

\* C15: a successful switch changes only the current pointer: the entries,
\* their indexes and aliases, the next index and the shutdown state of every
\* session are as before, and no driver call is made.
C15_SwitchChangesOnlyCurrent ==
    [][(last'.op = "switch" /\ last'.ok) =>
          /\ UNCHANGED << cache_connections, cache_aliases, registered,
                          shutdown_calls, sessions_opened, disconnected >>
          /\ last'.calls = << >>]_vars

\* A switch moved the current pointer from the second entry to the first.
C15_Witness ==
    /\ last.op = "switch" /\ last.ok
    /\ last.before = 2 /\ connection = 1
    /\ Len(cache_connections) = 2

\* C16: after a successful connect the session just opened is current (in
\* the library and in the cache) and the returned index is its index; the
\* entries registered before stay registered, at their index, and no
\* shutdown is invoked.
C16_ConnectMakesNewSessionCurrent ==
    /\ []((last.op = "connect" /\ last.ok) =>
             /\ connection = sessions_opened
             /\ cache_current = sessions_opened
             /\ last.ret \in 1..Len(cache_connections)
             /\ cache_connections[last.ret] = sessions_opened
             /\ \A k \in 1..Len(cache_connections) :
                   k # last.ret => cache_connections[k] # sessions_opened)
    /\ [][(last'.op = "connect" /\ last'.ok) =>
             /\ \A k \in 1..Len(cache_connections) :
                   cache_connections'[k] = cache_connections[k]
             /\ \A h \in DOMAIN shutdown_calls :
                   shutdown_calls'[h] = shutdown_calls[h]]_vars

\* A second connect made session 2 current while session 1, current before,
\* stayed registered at index 1.
C16_Witness ==
    /\ last.op = "connect" /\ last.ok /\ last.ret = 2
    /\ last.before = 1 /\ connection = 2
    /\ cache_connections = << 1, 2 >>

\* C18: a connect that fails (no session opened, or set_keyspace failing on
\* the opened session) registers no entry, binds no alias, leaves the current
\* connection unchanged and consumes no index.
C18_FailedConnectChangesNothing ==
    [][(last'.op = "connect" /\ ~last'.ok) =>
          /\ UNCHANGED << connection, cache_current, cache_connections,
                          cache_aliases, registered >>
          /\ Register(cache_connections', cache_aliases', 0, FALSE, NoString).index
                = Register(cache_connections, cache_aliases, 0, FALSE, NoString).index]_vars

\* A connect failed in set_keyspace, after the session was opened, while
\* another session was current.
C18_Witness ==
    /\ last.op = "connect" /\ ~last.ok
    /\ Len(last.calls) = 2 /\ last.calls[2].m = "set_keyspace"
    /\ connection = 1 /\ sessions_opened = 2
    /\ cache_connections = << 1 >>

\* C20: shutdown is invoked at most once on each session.
C20_ShutdownAtMostOnce ==
    \A h \in DOMAIN shutdown_calls : shutdown_calls[h] <= 1

\* The result set of a get_column call lacks the column in some row.
ColumnMissing ==
    \E n \in 1..Len(last.rows) : ~HasColumn(last.rows[n], last.column)

\* C12: when every row of the result set has the column, get_column returns
\* a list with one element per row, in row order, the n-th element being the
\* string form of the n-th row's value ("test" for 'test', "12" for 12, "-3"
\* for -3, "None" for None).
C12_GetColumnProjectsEveryRow ==
    (last.op = "get_column" /\ Truthy(connection) /\ ~last.fault /\ ~ColumnMissing) =>
        /\ last.ok
        /\ Len(last.list) = Len(last.rows)
        /\ \A n \in 1..Len(last.rows) :
              LET v == last.rows[n][last.column] IN
              /\ last.list[n] = Str(v)
              /\ v.t = "str" => last.list[n] = v.s
              /\ v = IntVal(12) => last.list[n] = << "1", "2" >>
              /\ v = IntVal(0 - 3) => last.list[n] = << "-", "3" >>
              /\ v = NoneVal => last.list[n] = << "N", "o", "n", "e" >>

\* The scenario: rows with keyspace_name 'test' and 'OpsCenter' gave
\* ['test', 'OpsCenter'].
C12_Witness ==
    /\ last.op = "get_column" /\ last.ok
    /\ last.column = KeyspaceName
    /\ last.rows = << RowTest, RowOpsCenter >>
    /\ last.list = << << "t", "e", "s", "t" >>,
                      << "O", "p", "s", "C", "e", "n", "t", "e", "r" >> >>

\* C13: get_column returns no partial result: without a current connection,
\* when session.execute raises, or when some row (first, middle or last)
\* lacks the column, the call fails with an error and no list is returned.
C13_GetColumnNoPartialResult ==
    last.op = "get_column" =>
        /\ (~Truthy(connection) \/ last.fault \/ ColumnMissing) =>
               (~last.ok /\ last.err # "" /\ last.list = << >>)
        /\ ~Truthy(connection) => (last.err = "NoConnection" /\ last.calls = << >>)
        /\ last.fault => last.err = "DriverError"
        /\ ~last.ok => last.list = << >>

\* The column was missing from the last row only, after a row was projected.
C13_Witness ==
    /\ last.op = "get_column" /\ ~last.ok /\ last.err = "AttributeError"
    /\ last.column = KeyspaceName
    /\ last.rows = << RowTest, RowNoKeyspace >>
    /\ last.list = << >>

\* C14: get_async_result on a pending operation does not return before the
\* driver has signalled completion or failure; it returns the result set of
\* the operation when it completed and fails with the operation-failed error
\* carrying the driver's message when it failed; and once the driver has
\* signalled, it eventually returns.
C14_ResolveWaitsForDriver ==
    /\ [](last.op = "get_async_result" =>
             /\ futures[last.int].state # "pending"
             /\ futures[last.int].state = "done" =>
                   (last.ok /\ last.ret = futures[last.int].session)
             /\ futures[last.int].state = "failed" =>
                   (~last.ok /\ last.err = "OperationFailed" /\ last.msg = "driver error"))
    /\ [][(waiting # 0 /\ futures[waiting].state = "pending") =>
             (waiting' = waiting /\ last' = last)]_vars
    /\ \A f \in 1..MaxFutures :
          (waiting = f /\ futures[f].state # "pending")
             ~> (waiting = 0 /\ last.op = "get_async_result" /\ last.int = f)

\* get_async_result returned the failure of an operation it had to wait for.
C14_Witness ==
    /\ last.op = "get_async_result" /\ ~last.ok /\ last.err = "OperationFailed"
    /\ waiting = 0
    /\ futures[last.int].state = "failed"

\* C17: no keyword call invokes a driver operation twice, and a driver
\* failure is reported to the caller after the single attempt (connect,
\* disconnect, execute, execute_async, get_async_result).
C17_NoInternalRetry ==
    last.op \in {"connect", "disconnect", "execute", "execute_async", "get_async_result"} =>
        /\ \A j, k \in 1..Len(last.calls) :
              j # k => last.calls[j].m # last.calls[k].m
        /\ last.fault => (~last.ok /\ last.err # "" /\ Len(last.calls) >= 1)

\* session.execute raised and the keyword failed after that one call.
C17_Witness ==
    /\ last.op = "execute" /\ last.fault /\ ~last.ok
    /\ last.calls = << StmtCall("execute", connection, last.stmt) >>

\* C19: a pending operation is bound to the session that was current when
\* execute_async issued it: get_async_result yields the outcome of the
\* statement on that session, whatever connects and switches came between,
\* and it leaves the current connection and the cache unchanged.
C19_ResolveUsesIssuingSession ==
    /\ []((last.op = "get_async_result" /\ last.ok) =>
             /\ last.ret = futures[last.int].session
             /\ last.stmt = futures[last.int].stmt
             /\ last.calls = << Call("result", futures[last.int].session) >>)
    /\ [][(waiting # 0 /\ waiting' = 0) =>
             UNCHANGED << connection, cache_current, cache_connections,
                          cache_aliases >>]_vars
    /\ [][(Len(futures') > Len(futures)) =>
             /\ Truthy(connection)
             /\ futures'[Len(futures')].session = connection
             /\ futures'[Len(futures')].session = cache_current]_vars

\* A future issued on session 1 was resolved while session 2 was current.
C19_Witness ==
    /\ last.op = "get_async_result" /\ last.ok
    /\ last.ret = 1
    /\ futures[last.int].session = 1
    /\ connection = 2

====
